---- MODULE Spec2Model ----
(***************************************************************************)
(* ProcessGroupAgent (torch/csrc/distributed/rpc/process_group_agent.cpp)  *)
(* as a state machine: a group of agents, each with a user thread, a       *)
(* listener thread and a pool of send/recv threads, over a ProcessGroup    *)
(* that offers ranked point-to-point send/recv, recvAnysource and barrier. *)
(***************************************************************************)
EXTENDS Integers, Sequences, FiniteSets, TLC

\* ------------------------------------------------------------------ bounds
WorldSize == 3      \* pg_->getSize(): number of agents in the group
NumThreads == 2     \* numSendRecvThreads where the pool's concurrency matters
MaxCalls == 2       \* user calls of send() in the whole group
FairCalls == 1      \* the same, where behaviours are checked to the end
CtorSize == 2       \* pg_->getSize() in the constructor calls
MaxPayload == 1     \* user payloads are <<1>> .. <<MaxPayload>>

Ranks == 0 .. (WorldSize - 1)
Threads == 1 .. NumThreads
Payloads == 1 .. MaxPayload

\* ------------------------------------------------------------------ messages
\* Message(payload, tensors, type, id); a Message built without an id
\* (join(), line 115) carries the sentinel.
NoId == -1

Msg(type, id, payload, tensors) ==
  [type |-> type, id |-> id, payload |-> payload, tensors |-> tensors]

NoMsg == Msg("NONE", NoId, <<>>, <<>>)

Request(p) == Msg("REQUEST", NoId, <<p>>, <<>>)

ShutdownMsg == Msg("SHUTDOWN", NoId, <<>>, <<>>)

\* The id is never set on the message.
setId_Dropped(m, id) == m

\* Only a RESPONSE counts as fire-and-forget.
isRequest_NotResponse(m) == m.type # "RESPONSE"

\* message.isRequest(), line 147
isRequest(m) == m.type = "REQUEST"

\* The id is read from the counter after nextId() has advanced it.
setId_AfterIncrement(m, id) == [m EXCEPT !.id = id + 1]

\* message.setId(requestId), line 152
setId(m, id) == [m EXCEPT !.id = id]

\* serialize(), lines 13-30: the tensor table, then the payload as a tensor,
\* then the id as a one-element tensor.
serialize(m) == m.tensors \o << m.payload, <<m.id>> >>

RECURSIVE SumLen(_)
SumLen(s) == IF s = <<>> THEN 0 ELSE Len(Head(s)) + SumLen(Tail(s))

\* serializedPayload.length(), line 182: every tensor costs a header and its
\* elements.
length(ser) == Len(ser) + SumLen(ser)

\* deserialize(), lines 32-54. The TORCH_CHECK of line 37 is DeserializeOk.
DeserializeOk(ser) == Len(ser) >= 2

deserialize(type, ser) ==
  LET idTensor == ser[Len(ser)]
      payloadTensor == ser[Len(ser) - 1]
  IN  Msg(type, idTensor[1], payloadTensor, SubSeq(ser, 1, Len(ser) - 2))

\* cb_ (processRequestBlocking): the response to a request carries the
\* request's id and a payload computed from the request's payload.
Pong(p) == p + 10

cb(m) == Msg("RESPONSE", m.id, <<Pong(m.payload[1])>>, <<>>)

\* ------------------------------------------------------------------ state
VARIABLES
  main,          \* main[a]: where agent a's user thread is
  mainReq,       \* mainReq[a]: the send() in progress on the user thread
  callsLeft,     \* user calls of send() still allowed in the group
  call,          \* call[a]: outcome of the last send() call of a's user thread
  nextId_,       \* nextId_[a]
  fut,           \* fut[a][r]: the FutureMessage made by the send() that drew r
  futures_,      \* futures_[a]: id -> the future registered under it
  futureMutex_,  \* futureMutex_[a]: holder of the table's lock
  sendMutexes_,  \* sendMutexes_[a][d]: holder of the mutex of destination d
  queue,         \* queue[a]: jobs handed to threadPool_.run, not yet taken
  thr,           \* thr[a][t]: pool thread t of agent a
  chan,          \* chan[s][d]: transmissions issued by s to d, not yet received
  lis,           \* lis[a]: the listener thread of a
  fatal,         \* fatal[a]: how agent a's process died, or "none"
  cbLog,         \* cbLog[a]: requests cb_ was invoked on, in order
  sdSent,        \* sdSent[a]: destinations of the SHUTDOWN preambles a issued
  sdRecv,        \* sdRecv[a]: SHUTDOWN preambles a's listener received
  ctor,          \* constructor call: inputs and outcome
  reqLog         \* reqLog[a][r]: destination and payload of a's REQUEST r

vars == << main, mainReq, callsLeft, call, nextId_, fut, futures_, futureMutex_,
           sendMutexes_, queue, thr, chan, lis, fatal, cbLog, sdSent, sdRecv,
           ctor, reqLog >>

Free == 0
User == 100         \* the user thread as a lock holder; pool threads are 1..

NoJob == [kind |-> "none", peer |-> 0, msg |-> NoMsg, bytes |-> <<>>]

SendWork(to, m) == [kind |-> "send", peer |-> to, msg |-> m, bytes |-> <<>>]

\* The sender is taken to be rank 0 whatever the preamble says.
RecvWork_FromZero(from, type, bytes) ==
  [kind |-> "recv", peer |-> 0, msg |-> Msg(type, NoId, <<>>, <<>>),
   bytes |-> bytes]

RecvWork(from, type, bytes) ==
  [kind |-> "recv", peer |-> from, msg |-> Msg(type, NoId, <<>>, <<>>),
   bytes |-> bytes]

IdleThread == [pc |-> "idle", job |-> NoJob]

NoCall == [n |-> 0, to |-> 0, type |-> "NONE", result |-> "none"]

NoCtor == [workerName |-> "", nameMap |-> << >>, rank |-> 0, size |-> 0,
           result |-> "none"]

Alive(a) == fatal[a] = "none"

\* A FutureMessage: n counts markCompleted calls.
NewFuture(type) == [type |-> type, n |-> 0, msg |-> NoMsg]

markCompleted(f, m) == [f EXCEPT !.n = @ + 1, !.msg = m]

completed(f) == f.n > 0

\* The state the constructor leaves (lines 63-71, 93): nextId_(0), one mutex
\* per rank, a pool of numSendRecvThreads threads, the listener started.
InitAgents(numSendRecvThreads) ==
  /\ main = [a \in Ranks |-> "run"]
  /\ mainReq = [a \in Ranks |-> NoJob]
  /\ call = [a \in Ranks |-> NoCall]
  /\ nextId_ = [a \in Ranks |-> 0]
  /\ fut = [a \in Ranks |-> << >>]
  /\ futures_ = [a \in Ranks |-> << >>]
  /\ futureMutex_ = [a \in Ranks |-> Free]
  /\ sendMutexes_ = [a \in Ranks |-> [d \in Ranks |-> Free]]
  /\ queue = [a \in Ranks |-> << >>]
  /\ thr = [a \in Ranks |-> [t \in 1 .. numSendRecvThreads |-> IdleThread]]
  /\ chan = [s \in Ranks |-> [d \in Ranks |-> << >>]]
  /\ lis = [a \in Ranks |-> [pc |-> "any", src |-> 0, size |-> 0, type |-> "NONE"]]
  /\ fatal = [a \in Ranks |-> "none"]
  /\ cbLog = [a \in Ranks |-> << >>]
  /\ sdSent = [a \in Ranks |-> << >>]
  /\ sdRecv = [a \in Ranks |-> 0]
  /\ reqLog = [a \in Ranks |-> << >>]

\* The pool threads of agent a
Pool(a) == DOMAIN thr[a]

Init ==
  /\ InitAgents(1)
  /\ callsLeft = MaxCalls
  /\ ctor = NoCtor

InitRun ==
  /\ InitAgents(NumThreads)
  /\ callsLeft = MaxCalls
  /\ ctor = NoCtor

InitFair ==
  /\ InitAgents(1)
  /\ callsLeft = FairCalls
  /\ ctor = NoCtor


\* ------------------------------------------------------------------ transport
\* ProcessGroup::send(tensors, dst, tag): the transmission is queued behind the
\* earlier ones of the same source and destination. Every send of the agent
\* uses tag = dst and every receive of dst uses tag = dst (lines 195, 207, 209,
\* 253, 270), so the tag always matches and is left out.
Preamble(a, t, m) ==
  [k |-> "pre", by |-> t, src |-> a, len |-> length(serialize(m)),
   type |-> m.type, bytes |-> << >>]

Body(a, t, m) ==
  [k |-> "body", by |-> t, src |-> a, len |-> length(serialize(m)),
   type |-> m.type, bytes |-> serialize(m)]

\* Work::wait() on a send: the handle resolves once the receiver has taken
\* the transmission.
SendsResolved(a, t, d) ==
  \A i \in 1 .. Len(chan[a][d]) : chan[a][d][i].by # t

\* ------------------------------------------------------------------ thread pool
\* threadPool_.run(job)
Run(q, a, job) == [q EXCEPT ![a] = Append(@, job)]

\* What waitWorkComplete() waits for: no queued job and no thread in a job.
PoolIdle(a) ==
  /\ queue[a] = << >>
  /\ \A t \in Pool(a) : thr[a][t].pc = "idle"

\* An idle pool thread takes the oldest queued job. The threads are
\* interchangeable, so the lowest idle one takes it.
Take(a, t) ==
  /\ Alive(a)
  /\ t \in Pool(a)
  /\ queue[a] # << >>
  /\ thr[a][t].pc = "idle"
  /\ \A u \in Pool(a) : u < t => thr[a][u].pc # "idle"
  /\ thr' = [thr EXCEPT ![a][t] =
       [pc |-> IF Head(queue[a]).kind = "send" THEN "lock" ELSE "recv",
        job |-> Head(queue[a])]]
  /\ queue' = [queue EXCEPT ![a] = Tail(@)]
  /\ UNCHANGED << main, mainReq, callsLeft, call, nextId_, fut, futures_,
                  futureMutex_, sendMutexes_, chan, lis, fatal, cbLog, sdSent,
                  sdRecv, ctor, reqLog >>

\* ------------------------------------------------------------------ send()
\* workerIds_[to.id_], line 166. workerIds_[r] is WorkerId(name, r) for every
\* rank r (lines 87-90); an index outside the vector is an out-of-bounds read,
\* which yields either a crash or the WorkerId of some peer.
Segv == 0 - 1000

workerIds_(a, id) ==
  IF id \in Ranks THEN {id} ELSE (Ranks \ {a}) \cup {Segv}

\* The TORCH_CHECKs of lines 139-143.
SendCheck(a, to) == to # a /\ to < WorldSize

\* The table's lock is taken by lock_guard, lines 149 and 236.
FutureMutexFree(a) == futureMutex_[a] = Free

\* send() called on the user thread of a, lines 137-155: the checks, nextId()
\* and, for a REQUEST, the registration of the future under the lock. The
\* other message types complete the future and go on to line 166 at once.
SendCall(a, to, m) ==
  /\ Alive(a)
  /\ main[a] = "run"
  /\ callsLeft > 0
  /\ callsLeft' = callsLeft - 1
  /\ IF ~SendCheck(a, to)
     THEN /\ call' = [call EXCEPT ![a] =
                 [n |-> @.n + 1, to |-> to, type |-> m.type, result |-> "error"]]
          /\ UNCHANGED << main, mainReq, nextId_, fut, futures_, futureMutex_,
                          queue, fatal, reqLog >>
     ELSE LET requestId == nextId_[a] IN
          /\ nextId_' = [nextId_ EXCEPT ![a] = @ + 1]
          /\ IF isRequest(m)
             THEN /\ FutureMutexFree(a)
                  /\ futureMutex_' = [futureMutex_ EXCEPT ![a] = User]
                  /\ futures_' = [futures_ EXCEPT ![a] =
                        [i \in DOMAIN @ \cup {requestId} |->
                           IF i = requestId THEN requestId ELSE @[i]]]
                  /\ fut' = [fut EXCEPT ![a] =
                        [i \in DOMAIN @ \cup {requestId} |->
                           IF i = requestId THEN NewFuture(m.type) ELSE @[i]]]
                  /\ main' = [main EXCEPT ![a] = "sendReg"]
                  /\ mainReq' = [mainReq EXCEPT ![a] = SendWork(to, setId(m, requestId))]
                  /\ reqLog' = [reqLog EXCEPT ![a] =
                        [i \in DOMAIN @ \cup {requestId} |->
                           IF i = requestId
                           THEN [to |-> to, payload |-> m.payload]
                           ELSE @[i]]]
                  /\ call' = [call EXCEPT ![a] =
                        [n |-> @.n + 1, to |-> to, type |-> m.type,
                         result |-> "registered"]]
                  /\ UNCHANGED << queue, fatal >>
             ELSE /\ fut' = [fut EXCEPT ![a] =
                        [i \in DOMAIN @ \cup {requestId} |->
                           IF i = requestId
                           THEN markCompleted(NewFuture(m.type), NoMsg)
                           ELSE @[i]]]
                  /\ \E w \in workerIds_(a, to) :
                       IF w = Segv
                       THEN /\ fatal' = [fatal EXCEPT ![a] = "segv"]
                            /\ call' = [call EXCEPT ![a] =
                                 [n |-> @.n + 1, to |-> to, type |-> m.type,
                                  result |-> "segv"]]
                            /\ UNCHANGED queue
                       ELSE /\ queue' = Run(queue, a, SendWork(w, m))
                            /\ call' = [call EXCEPT ![a] =
                                 [n |-> @.n + 1, to |-> to, type |-> m.type,
                                  result |-> "ok"]]
                            /\ UNCHANGED fatal
                  /\ UNCHANGED << main, mainReq, futures_, futureMutex_, reqLog >>
  /\ UNCHANGED << sendMutexes_, thr, chan, lis, cbLog, sdSent, sdRecv, ctor >>

\* The rest of send() for a REQUEST, lines 151-167: the lock is released, the
\* id is set and the SendWork is enqueued.
SendReturn(a) ==
  /\ Alive(a)
  /\ main[a] = "sendReg"
  /\ futureMutex_' = [futureMutex_ EXCEPT ![a] = Free]
  /\ main' = [main EXCEPT ![a] = "run"]
  /\ mainReq' = [mainReq EXCEPT ![a] = NoJob]
  /\ \E w \in workerIds_(a, mainReq[a].peer) :
       IF w = Segv
       THEN /\ fatal' = [fatal EXCEPT ![a] = "segv"]
            /\ call' = [call EXCEPT ![a].result = "segv"]
            /\ UNCHANGED queue
       ELSE /\ queue' = Run(queue, a, SendWork(w, mainReq[a].msg))
            /\ call' = [call EXCEPT ![a].result = "ok"]
            /\ UNCHANGED fatal
  /\ UNCHANGED << callsLeft, nextId_, fut, futures_, sendMutexes_, thr, chan,
                  lis, cbLog, sdSent, sdRecv, ctor, reqLog >>

\* The user of agent a sends a REQUEST to a peer.
send(a) ==
  \E to \in Ranks \ {a}, p \in Payloads : SendCall(a, to, Request(p))


\* What a caller can hand to send(): any WorkerId, in the group or not, and a
\* message of any type.
ToIds == (0 - 1) .. WorldSize

ApiMsgs ==
  {Request(p) : p \in Payloads}
    \cup {Msg("RESPONSE", 0, << Pong(p) >>, << >>) : p \in Payloads}
    \cup {ShutdownMsg}

ApiSend(a) == \E to \in ToIds, m \in ApiMsgs : SendCall(a, to, m)

\* ------------------------------------------------------------------ SendWork job
\* One mutex shared by every destination.
SendMutex_Shared(dst) == 0

\* sendMutexes_[dst], lines 193 and 205
SendMutex(dst) == dst

\* No lock_guard: the job never waits for the mutex.
SendMutexFree_NoLock(a, dst) == TRUE

\* lock_guard on sendMutexes_[dst] can be taken
SendMutexFree(a, dst) == sendMutexes_[a][SendMutex(dst)] = Free

\* Lines 174-207: the job serializes the message, builds the preamble, takes
\* the destination's mutex and issues the preamble. A SHUTDOWN has no body:
\* its guard goes out of scope at line 196 and the job goes on to wait.
SendPreamble(a, t) ==
  LET work == thr[a][t].job
      dst == work.peer
  IN  /\ Alive(a)
      /\ t \in Pool(a)
      /\ thr[a][t].pc = "lock"
      /\ SendMutexFree(a, dst)
      /\ chan' = [chan EXCEPT ![a][dst] = Append(@, Preamble(a, t, work.msg))]
      /\ IF work.msg.type = "SHUTDOWN"
         THEN /\ thr' = [thr EXCEPT ![a][t].pc = "wait"]
              /\ sdSent' = [sdSent EXCEPT ![a] = Append(@, dst)]
              /\ UNCHANGED sendMutexes_
         ELSE /\ thr' = [thr EXCEPT ![a][t].pc = "body"]
              /\ sendMutexes_' = [sendMutexes_ EXCEPT ![a][SendMutex(dst)] = t]
              /\ UNCHANGED sdSent
      /\ UNCHANGED << main, mainReq, callsLeft, call, nextId_, fut, futures_,
                      futureMutex_, queue, lis, fatal, cbLog, sdRecv, ctor, reqLog >>

\* The guard is scoped over the wait loop: the body is issued and the mutex
\* is kept.
SendBody_GuardKept(a, t) ==
  LET work == thr[a][t].job
      dst == work.peer
  IN  /\ Alive(a)
      /\ t \in Pool(a)
      /\ thr[a][t].pc = "body"
      /\ chan' = [chan EXCEPT ![a][dst] = Append(@, Body(a, t, work.msg))]
      /\ thr' = [thr EXCEPT ![a][t].pc = "wait"]
      /\ UNCHANGED << main, mainReq, callsLeft, call, nextId_, fut, futures_,
                      futureMutex_, sendMutexes_, queue, lis, fatal, cbLog,
                      sdSent, sdRecv, ctor, reqLog >>

\* Lines 208-210: the body is issued and the guard goes out of scope.
SendBody(a, t) ==
  LET work == thr[a][t].job
      dst == work.peer
  IN  /\ Alive(a)
      /\ t \in Pool(a)
      /\ thr[a][t].pc = "body"
      /\ chan' = [chan EXCEPT ![a][dst] = Append(@, Body(a, t, work.msg))]
      /\ sendMutexes_' = [sendMutexes_ EXCEPT ![a][SendMutex(dst)] = Free]
      /\ thr' = [thr EXCEPT ![a][t].pc = "wait"]
      /\ UNCHANGED << main, mainReq, callsLeft, call, nextId_, fut, futures_,
                      futureMutex_, queue, lis, fatal, cbLog, sdSent, sdRecv,
                      ctor, reqLog >>

\* Lines 211-213: the job ends when every pending send has resolved.
SendWait(a, t) ==
  /\ Alive(a)
  /\ t \in Pool(a)
  /\ thr[a][t].pc = "wait"
  /\ SendsResolved(a, t, thr[a][t].job.peer)
  /\ thr' = [thr EXCEPT ![a][t] = IdleThread]
  /\ UNCHANGED << main, mainReq, callsLeft, call, nextId_, fut, futures_,
                  futureMutex_, sendMutexes_, queue, chan, lis, fatal, cbLog,
                  sdSent, sdRecv, ctor, reqLog >>

\* ------------------------------------------------------------------ RecvWork job
\* futures_[id]->markCompleted(message); futures_.erase(id), lines 237-238.
\* operator[] on an id that is not in the table inserts a null pointer, and
\* the call through it is undefined: the process dies or goes on with no
\* future completed.
\* The response completes the oldest registered future, whatever its id.
Completed_Oldest(f, a, id, m) ==
  LET lo == CHOOSE i \in DOMAIN futures_[a] : \A j \in DOMAIN futures_[a] : i <= j
  IN  [f EXCEPT ![a] = [@ EXCEPT ![futures_[a][lo]] = markCompleted(@, m)]]

Completed(f, a, id, m) ==
  [f EXCEPT ![a] = [@ EXCEPT ![futures_[a][id]] = markCompleted(@, m)]]

\* futures_.clear(): every entry goes with the one that was answered.
Erased_All(tab, a, id) == [tab EXCEPT ![a] = << >>]

Erased(tab, a, id) ==
  [tab EXCEPT ![a] = [i \in DOMAIN @ \ {id} |-> @[i]]]

\* Lines 224-243, up to the end of the locked block.
RecvRun(a, t) ==
  LET work == thr[a][t].job
      message == deserialize(work.msg.type, work.bytes)
  IN  /\ Alive(a)
      /\ t \in Pool(a)
      /\ thr[a][t].pc = "recv"
      /\ IF ~DeserializeOk(work.bytes)
         THEN /\ fatal' = [fatal EXCEPT ![a] = "deserialize"]
              /\ UNCHANGED << nextId_, fut, futures_, futureMutex_, queue, thr,
                              cbLog >>
         ELSE IF message.type = "REQUEST"
         THEN \* cb_, then send(work.from_, response) on this thread
              LET response == cb(message)
                  requestId == nextId_[a]
              IN  /\ cbLog' = [cbLog EXCEPT ![a] =
                        Append(@, [from |-> work.peer, id |-> message.id,
                                   payload |-> message.payload])]
                  /\ IF ~SendCheck(a, work.peer)
                     THEN /\ fatal' = [fatal EXCEPT ![a] = "check"]
                          /\ UNCHANGED << nextId_, fut, queue, thr >>
                     ELSE /\ nextId_' = [nextId_ EXCEPT ![a] = @ + 1]
                          /\ fut' = [fut EXCEPT ![a] =
                               [i \in DOMAIN @ \cup {requestId} |->
                                  IF i = requestId
                                  THEN markCompleted(NewFuture(response.type), NoMsg)
                                  ELSE @[i]]]
                          /\ queue' = Run(queue, a, SendWork(work.peer, response))
                          /\ thr' = [thr EXCEPT ![a][t] = IdleThread]
                          /\ UNCHANGED fatal
                  /\ UNCHANGED << futures_, futureMutex_ >>
         ELSE IF message.type = "RESPONSE"
         THEN /\ FutureMutexFree(a)
              /\ IF message.id \in DOMAIN futures_[a]
                 THEN /\ fut' = Completed(fut, a, message.id, message)
                      /\ futures_' = Erased(futures_, a, message.id)
                      /\ futureMutex_' = [futureMutex_ EXCEPT ![a] = t]
                      /\ thr' = [thr EXCEPT ![a][t].pc = "unlock"]
                      /\ UNCHANGED fatal
                 ELSE \E dies \in BOOLEAN :
                        IF dies
                        THEN /\ fatal' = [fatal EXCEPT ![a] = "segv"]
                             /\ UNCHANGED << fut, futures_, futureMutex_, thr >>
                        ELSE /\ futureMutex_' = [futureMutex_ EXCEPT ![a] = t]
                             /\ thr' = [thr EXCEPT ![a][t].pc = "unlock"]
                             /\ UNCHANGED << fut, futures_, fatal >>
              /\ UNCHANGED << nextId_, queue, cbLog >>
         ELSE \* AT_ERROR, line 242
              /\ fatal' = [fatal EXCEPT ![a] = "type"]
              /\ UNCHANGED << nextId_, fut, futures_, futureMutex_, queue, thr,
                              cbLog >>
      /\ UNCHANGED << main, mainReq, callsLeft, call, sendMutexes_, chan, lis,
                      sdSent, sdRecv, ctor, reqLog >>

\* The table's lock is taken with lock() and never unlocked: the job ends
\* with the lock still held by its thread.
RecvUnlock_NoUnlock(a, t) ==
  /\ Alive(a)
  /\ t \in Pool(a)
  /\ thr[a][t].pc = "unlock"
  /\ thr' = [thr EXCEPT ![a][t] = IdleThread]
  /\ UNCHANGED << main, mainReq, callsLeft, call, nextId_, fut, futures_,
                  futureMutex_, sendMutexes_, queue, chan, lis, fatal, cbLog,
                  sdSent, sdRecv, ctor, reqLog >>

\* Line 239: the lock_guard of the RESPONSE branch goes out of scope.
RecvUnlock(a, t) ==
  /\ Alive(a)
  /\ t \in Pool(a)
  /\ thr[a][t].pc = "unlock"
  /\ futureMutex_' = [futureMutex_ EXCEPT ![a] = Free]
  /\ thr' = [thr EXCEPT ![a][t] = IdleThread]
  /\ UNCHANGED << main, mainReq, callsLeft, call, nextId_, fut, futures_,
                  sendMutexes_, queue, chan, lis, fatal, cbLog, sdSent, sdRecv,
                  ctor, reqLog >>

\* ------------------------------------------------------------------ listenLoop
\* Lines 252-267: recvAnysource takes the oldest transmission of some source
\* and reads it as a preamble. A transmission that is no preamble does not fit
\* the three-element buffer.
ListenAny(a) ==
  /\ Alive(a)
  /\ lis[a].pc = "any"
  /\ \E s \in Ranks :
       /\ chan[s][a] # << >>
       /\ LET tx == Head(chan[s][a]) IN
          /\ chan' = [chan EXCEPT ![s][a] = Tail(@)]
          /\ IF tx.k # "pre"
             THEN /\ lis' = [lis EXCEPT ![a].pc = "garbled"]
                  /\ UNCHANGED sdRecv
             ELSE IF tx.type = "SHUTDOWN"
             THEN /\ lis' = [lis EXCEPT ![a] =
                       [pc |-> "exit", src |-> tx.src, size |-> tx.len,
                        type |-> tx.type]]
                  /\ sdRecv' = [sdRecv EXCEPT ![a] = @ + 1]
             ELSE /\ lis' = [lis EXCEPT ![a] =
                       [pc |-> "body", src |-> tx.src, size |-> tx.len,
                        type |-> tx.type]]
                  /\ UNCHANGED sdRecv
  /\ UNCHANGED << main, mainReq, callsLeft, call, nextId_, fut, futures_,
                  futureMutex_, sendMutexes_, queue, thr, fatal, cbLog, sdSent,
                  ctor, reqLog >>

\* The body is received with recvAnysource: from whichever source has a
\* transmission waiting.
ListenBody_AnySource(a) ==
  /\ Alive(a)
  /\ lis[a].pc = "body"
  /\ \E s \in Ranks :
       /\ chan[s][a] # << >>
       /\ LET tx == Head(chan[s][a]) IN
          /\ chan' = [chan EXCEPT ![s][a] = Tail(@)]
          /\ IF tx.k # "body" \/ length(tx.bytes) # lis[a].size
             THEN /\ lis' = [lis EXCEPT ![a].pc = "garbled"]
                  /\ UNCHANGED queue
             ELSE /\ lis' = [lis EXCEPT ![a].pc = "any"]
                  /\ queue' = Run(queue, a, RecvWork(s, lis[a].type, tx.bytes))
  /\ UNCHANGED << main, mainReq, callsLeft, call, nextId_, fut, futures_,
                  futureMutex_, sendMutexes_, thr, fatal, cbLog, sdSent, sdRecv,
                  ctor, reqLog >>

\* Lines 269-272: recv of size bytes from srcRank, then enqueueRecv.
ListenBody(a) ==
  LET s == lis[a].src IN
  /\ Alive(a)
  /\ lis[a].pc = "body"
  /\ chan[s][a] # << >>
  /\ LET tx == Head(chan[s][a]) IN
     /\ chan' = [chan EXCEPT ![s][a] = Tail(@)]
     /\ IF tx.k # "body" \/ length(tx.bytes) # lis[a].size
        THEN /\ lis' = [lis EXCEPT ![a].pc = "garbled"]
             /\ UNCHANGED queue
        ELSE /\ lis' = [lis EXCEPT ![a].pc = "any"]
             /\ queue' = Run(queue, a, RecvWork(s, lis[a].type, tx.bytes))
  /\ UNCHANGED << main, mainReq, callsLeft, call, nextId_, fut, futures_,
                  futureMutex_, sendMutexes_, thr, fatal, cbLog, sdSent, sdRecv,
                  ctor, reqLog >>

\* ------------------------------------------------------------------ sync(), join()
\* join() is entered, line 105, and reaches the first barrier of sync(),
\* line 128.
join(a) ==
  /\ Alive(a)
  /\ main[a] = "run"
  /\ main' = [main EXCEPT ![a] = "barrier1"]
  /\ UNCHANGED << mainReq, callsLeft, call, nextId_, fut, futures_,
                  futureMutex_, sendMutexes_, queue, thr, chan, lis, fatal,
                  cbLog, sdSent, sdRecv, ctor, reqLog >>

\* pg_->barrier()->wait() returns on every member once all have entered.
Barrier(from, to) ==
  /\ \A a \in Ranks : main[a] = from
  /\ main' = [a \in Ranks |-> to]
  /\ UNCHANGED << mainReq, callsLeft, call, nextId_, fut, futures_,
                  futureMutex_, sendMutexes_, queue, thr, chan, lis, fatal,
                  cbLog, sdSent, sdRecv, ctor, reqLog >>

\* Line 128
Barrier1 == Barrier("barrier1", "drain")

\* threadPool_.waitWorkComplete() returns
WaitWorkComplete(a, from, to) ==
  /\ Alive(a)
  /\ main[a] = from
  /\ PoolIdle(a)
  /\ main' = [main EXCEPT ![a] = to]
  /\ UNCHANGED << mainReq, callsLeft, call, nextId_, fut, futures_,
                  futureMutex_, sendMutexes_, queue, thr, chan, lis, fatal,
                  cbLog, sdSent, sdRecv, ctor, reqLog >>

\* Line 131
SyncDrain(a) == WaitWorkComplete(a, "drain", "barrier2")

\* Line 134: sync() returns into join()
Barrier2 == Barrier("barrier2", "synced")

\* Lines 113-115
JoinShutdown(a) ==
  LET dst == (a + 1) % WorldSize IN
  /\ Alive(a)
  /\ main[a] = "synced"
  /\ queue' = Run(queue, a, SendWork(dst, ShutdownMsg))
  /\ main' = [main EXCEPT ![a] = "drain2"]
  /\ UNCHANGED << mainReq, callsLeft, call, nextId_, fut, futures_,
                  futureMutex_, sendMutexes_, thr, chan, lis, fatal, cbLog,
                  sdSent, sdRecv, ctor, reqLog >>

\* Line 116
JoinDrain(a) == WaitWorkComplete(a, "drain2", "joinListener")

\* Line 117: listenerThread_.join() returns once listenLoop has returned.
JoinListener(a) ==
  /\ Alive(a)
  /\ main[a] = "joinListener"
  /\ lis[a].pc = "exit"
  /\ main' = [main EXCEPT ![a] = "done"]
  /\ UNCHANGED << mainReq, callsLeft, call, nextId_, fut, futures_,
                  futureMutex_, sendMutexes_, queue, thr, chan, lis, fatal,
                  cbLog, sdSent, sdRecv, ctor, reqLog >>

\* ------------------------------------------------------------------ specification
PoolStep(a, t) ==
  \/ Take(a, t)
  \/ SendPreamble(a, t)
  \/ SendBody(a, t)
  \/ SendWait(a, t)
  \/ RecvRun(a, t)
  \/ RecvUnlock(a, t)

ListenStep(a) == ListenAny(a) \/ ListenBody(a)

JoinStep(a) ==
  \/ SyncDrain(a)
  \/ JoinShutdown(a)
  \/ JoinDrain(a)
  \/ JoinListener(a)

Next ==
  \/ \E a \in Ranks : send(a) \/ SendReturn(a) \/ join(a)
  \/ \E a \in Ranks : JoinStep(a) \/ ListenStep(a)
  \/ \E a \in Ranks, t \in Threads : PoolStep(a, t)
  \/ Barrier1
  \/ Barrier2

Spec == Init /\ [][Next]_vars

\* The running group: no member calls join().
NextRun ==
  \/ \E a \in Ranks : send(a) \/ SendReturn(a)
  \/ \E a \in Ranks : ListenStep(a)
  \/ \E a \in Ranks, t \in Threads : PoolStep(a, t)

RunSpec == InitRun /\ [][NextRun]_vars


\* ------------------------------------------------------------------ constructor
\* The arguments of the constructor: the worker's name, a name -> rank map of
\* any size over any ranks, and a ProcessGroup of CtorSize members.
Names == {"a", "b", "c"}

CtorRanks == (0 - 1) .. CtorSize

NameMaps == UNION {[D -> CtorRanks] : D \in SUBSET Names}

InitCtor ==
  /\ InitAgents(1)
  /\ callsLeft = 0
  /\ ctor \in [workerName : Names, nameMap : NameMaps,
                rank : 0 .. (CtorSize - 1), size : {CtorSize},
                result : {"none"}]

\* ProcessGroupAgent::ProcessGroupAgent, lines 72-90: the three TORCH_CHECKs,
\* then tmpWorkerIds[entry.second] = entry.first for every entry, into a
\* vector of pg_->getSize() elements. A rank outside the vector is an
\* out-of-bounds write: the process dies or construction goes on.
Construct ==
  LET nameMap_ == ctor.nameMap
      inRange == \A n \in DOMAIN nameMap_ : nameMap_[n] \in 0 .. (ctor.size - 1)
  IN  /\ ctor.result = "none"
      /\ \E out \in
            IF ~(Cardinality(DOMAIN nameMap_) > 1) THEN {"error"}
            ELSE IF ctor.workerName \notin DOMAIN nameMap_ THEN {"error"}
            ELSE IF ctor.rank # nameMap_[ctor.workerName] THEN {"error"}
            ELSE IF ~inRange THEN {"ok", "segv"}
            ELSE {"ok"} :
            ctor' = [ctor EXCEPT !.result = out]
      /\ UNCHANGED << main, mainReq, callsLeft, call, nextId_, fut, futures_,
                      futureMutex_, sendMutexes_, queue, thr, chan, lis, fatal,
                      cbLog, sdSent, sdRecv, reqLog >>

NextCtor == Construct

CtorSpec == InitCtor /\ [][NextCtor]_vars

\* send() under every argument a caller can pass, in a running group.
NextApi ==
  \/ \E a \in Ranks : ApiSend(a) \/ SendReturn(a)
  \/ \E a \in Ranks : ListenStep(a)
  \/ \E a \in Ranks, t \in Threads : PoolStep(a, t)

ApiSpec == Init /\ [][NextApi]_vars

\* Every thread that can take a step eventually takes one: the user thread
\* inside send(), sync() and join(), the listener, the pool threads, and the
\* barrier once every member has entered it. Whether and when a user calls
\* send() or join() is left to the user.
Fairness ==
  /\ \A a \in Ranks : WF_vars(SendReturn(a))
  /\ \A a \in Ranks : WF_vars(JoinStep(a))
  /\ \A a \in Ranks : WF_vars(ListenStep(a))
  /\ \A a \in Ranks : \A t \in Threads : WF_vars(PoolStep(a, t))
  /\ WF_vars(Barrier1)
  /\ WF_vars(Barrier2)

FairSpec == InitFair /\ [][Next]_vars /\ Fairness

\* ------------------------------------------------------------------ properties
IsRequestFuture(a, r) == r \in DOMAIN fut[a] /\ fut[a][r].type = "REQUEST"

\* The message cb_ returned at the destination of a's request r: it is logged
\* there as invoked on that request, and carries the request's id.
IsResponseTo(m, a, r) ==
  /\ m.type = "RESPONSE"
  /\ m.id = r
  /\ m.payload = << Pong(reqLog[a][r].payload[1]) >>
  /\ \E i \in DOMAIN cbLog[reqLog[a][r].to] :
       cbLog[reqLog[a][r].to][i] =
         [from |-> a, id |-> r, payload |-> reqLog[a][r].payload]

Answered(a, r) ==
  /\ IsRequestFuture(a, r)
  /\ fut[a][r].n = 1
  /\ IsResponseTo(fut[a][r].msg, a, r)

\* Member a has called join().
Joined(a) == main[a] \notin {"run", "sendReg"}

AllJoined == \A a \in Ranks : Joined(a)

\* The request ids a member can draw within the bounds.
ReqIds == 0 .. MaxCalls

FutureOnceAndRight ==
  \A a \in Ranks : \A r \in DOMAIN fut[a] :
    IsRequestFuture(a, r) =>
      /\ fut[a][r].n <= 1
      /\ fut[a][r].n = 0 => fut[a][r].msg = NoMsg
      /\ fut[a][r].n = 1 => IsResponseTo(fut[a][r].msg, a, r)

FutureCompletedByRecvWork ==
  \A a \in Ranks : \A r \in DOMAIN fut[a] :
    (IsRequestFuture(a, r) /\ fut[a][r] # fut'[a][r]) =>
      \E t \in Pool(a) :
        /\ thr[a][t].pc = "recv"
        /\ thr'[a][t].pc = "unlock"
        /\ thr[a][t].job.msg.type = "RESPONSE"
        /\ deserialize("RESPONSE", thr[a][t].job.bytes).id = r
        /\ fut'[a][r].msg = deserialize("RESPONSE", thr[a][t].job.bytes)

\* C1: the future of a REQUEST is untouched until a RecvWork job of the
\* sending agent processes a RESPONSE carrying the request's id; that job
\* completes it, once, with that RESPONSE, which is the message the callback
\* returned for this request and no other.
C1_FutureCompletion ==
  [](FutureOnceAndRight) /\ [][FutureCompletedByRecvWork]_vars

\* Witness of C1: an agent with one request answered and another still open.
C1_Witness ==
  \E a \in Ranks : \E r, q \in DOMAIN fut[a] :
    /\ IsRequestFuture(a, r) /\ fut[a][r].n = 1
    /\ IsRequestFuture(a, q) /\ fut[a][q].n = 0

\* C2: once every member has called join(), every listener ends up
\* terminated, having received one SHUTDOWN, and join() has returned on every
\* member.
C2_JoinTerminates ==
  AllJoined ~> (\A a \in Ranks :
                  main[a] = "done" /\ lis[a].pc = "exit" /\ sdRecv[a] = 1)

\* C3: at the step in which sync() returns (the second barrier opens), no
\* member has a queued or running pool job.
C3_SyncReturnsDrained ==
  [][(\E a \in Ranks : main[a] = "barrier2" /\ main'[a] = "synced")
       => \A b \in Ranks : PoolIdle(b)]_vars

\* C4: while a job has issued its preamble to a destination and not yet its
\* body, every transmission issued by its agent to that destination is its own.
C4_NoInterleaving ==
  [][\A a \in Ranks : \A t \in Pool(a) :
       thr[a][t].pc = "body" =>
         LET d == thr[a][t].job.peer IN
         Len(chan'[a][d]) > Len(chan[a][d]) =>
           chan'[a][d][Len(chan'[a][d])].by = t]_vars

\* Witness of C4: one job between preamble and body, another job of the same
\* agent for the same destination waiting to transmit.
C4_Witness ==
  \E a \in Ranks : \E t, u \in Pool(a) :
    /\ thr[a][t].pc = "body"
    /\ thr[a][u].pc = "lock"
    /\ thr[a][t].job.peer = thr[a][u].job.peer

\* C5: while no member has called join(), every request registered by A for
\* B leads to B's callback having run on it and to A's future completed, once,
\* with the message that callback returned, under the request's id.
C5_RequestAnswered ==
  \A a \in Ranks : \A r \in ReqIds :
    IsRequestFuture(a, r) ~>
      ( \/ Answered(a, r)
        \/ \E m \in Ranks : Joined(m) )

\* Witness of C5: a request answered in a group where nobody has called join().
C5_Witness ==
  /\ \A m \in Ranks : ~Joined(m)
  /\ \E a \in Ranks : \E r \in ReqIds : Answered(a, r)

\* C6: the future made by send() for a RESPONSE or a SHUTDOWN is completed
\* from the moment it exists, whether or not its SendWork has run, and no
\* entry of the table refers to it.
C6_FireAndForget ==
  \A a \in Ranks : \A r \in DOMAIN fut[a] :
    fut[a][r].type \in {"RESPONSE", "SHUTDOWN"} =>
      /\ completed(fut[a][r])
      /\ \A i \in DOMAIN futures_[a] : futures_[a][i] # r

\* Witness of C6: send() has returned for a SHUTDOWN and for a RESPONSE whose
\* SendWork jobs are both still queued.
C6_Witness ==
  \E a \in Ranks : \E r, q \in DOMAIN fut[a] :
    /\ fut[a][r].type = "SHUTDOWN"
    /\ fut[a][q].type = "RESPONSE"
    /\ \E i, j \in DOMAIN queue[a] :
         /\ queue[a][i].kind = "send" /\ queue[a][i].msg.type = "SHUTDOWN"
         /\ queue[a][j].kind = "send" /\ queue[a][j].msg.type = "RESPONSE"

\* A destination send() is to refuse: the caller itself, or no rank of the
\* group.
BadDestination(a, to) == to = a \/ to \notin Ranks

\* C7: every send() call to the local rank or to a rank outside
\* 0..worldSize-1 ends in the precondition error, with nothing enqueued and
\* nothing registered.
C7_RejectsBadDestination ==
  [][\A a \in Ranks :
       (call'[a].n = call[a].n + 1 /\ BadDestination(a, call'[a].to)) =>
         /\ call'[a].result = "error"
         /\ queue'[a] = queue[a]
         /\ futures_'[a] = futures_[a]]_vars

\* C8: a job that is about to transmit can take its destination's mutex and
\* issue its preamble whenever no other job of the agent is inside the locked
\* region of the same destination, whatever jobs for other destinations hold
\* or wait on.
C8_NoFalseSerialization ==
  \A a \in Ranks : \A t \in Pool(a) :
    ( /\ Alive(a)
      /\ thr[a][t].pc = "lock"
      /\ \A u \in Pool(a) :
           thr[a][u].pc = "body" => thr[a][u].job.peer # thr[a][t].job.peer )
    => ENABLED SendPreamble(a, t)

\* Witness of C8: two jobs of one agent inside the locked regions of two
\* different destinations at once.
C8_Witness ==
  \E a \in Ranks : \E t, u \in Pool(a) :
    /\ thr[a][t].pc = "body"
    /\ thr[a][u].pc = "body"
    /\ thr[a][t].job.peer # thr[a][u].job.peer

ShutdownRing ==
  \A a \in Ranks :
    /\ Len(sdSent[a]) <= 1
    /\ \A i \in DOMAIN sdSent[a] : sdSent[a][i] = (a + 1) % WorldSize
    /\ sdRecv[a] <= 1

\* C9: every member issues at most one SHUTDOWN preamble, to its successor,
\* and no listener receives two; once all members have called join(), every
\* member has issued its one and every listener has received its one.
C9_ShutdownRing ==
  /\ [](ShutdownRing)
  /\ AllJoined ~> (\A a \in Ranks : Len(sdSent[a]) = 1 /\ sdRecv[a] = 1)

\* The three conditions of the constructor's contract.
CtorValid ==
  /\ Cardinality(DOMAIN ctor.nameMap) >= 2
  /\ ctor.workerName \in DOMAIN ctor.nameMap
  /\ ctor.nameMap[ctor.workerName] = ctor.rank

\* C10: construction succeeds exactly when the map has at least two entries,
\* contains the worker's name and maps it to the transport's rank; in every
\* other case it fails with an error.
C10_ConstructionOutcome ==
  ctor.result # "none" =>
    /\ CtorValid => ctor.result = "ok"
    /\ ~CtorValid => ctor.result = "error"

\* Thread t of agent a has issued a transmission whose handle is pending.
SendPending(a, t) ==
  /\ thr[a][t].job.kind = "send"
  /\ ~SendsResolved(a, t, thr[a][t].job.peer)

HoldsSendMutex(a, t) == \E d \in Ranks : sendMutexes_[a][d] = t

\* C11 as stated: a SendWork job holds its destination's mutex for as long as
\* one of its transmissions is pending.
C11_MutexHeldUntilResolved ==
  \A a \in Ranks : \A t \in Pool(a) :
    SendPending(a, t) => sendMutexes_[a][SendMutex(thr[a][t].job.peer)] = t

\* C11, amended: a SendWork job holds its destination's mutex exactly from
\* the issue of its preamble to the issue of its body, transmits only while
\* the mutex is its own or free to take, and holds no mutex while it waits for
\* the handles.
C11_MutexHeldWhileIssuing ==
  /\ \A a \in Ranks : \A t \in Pool(a) :
       /\ thr[a][t].pc = "body" =>
            sendMutexes_[a][SendMutex(thr[a][t].job.peer)] = t
       /\ thr[a][t].pc # "body" => ~HoldsSendMutex(a, t)
  /\ \A a \in Ranks : \A d \in Ranks :
       Cardinality({t \in Pool(a) :
                      thr[a][t].pc = "body" /\ thr[a][t].job.peer = d}) <= 1

\* Witness of C11: a job waiting on pending transmissions while another job
\* of the same agent holds the mutex of the same destination.
C11_Witness ==
  \E a \in Ranks : \E t, u \in Pool(a) :
    /\ thr[a][t].pc = "wait" /\ SendPending(a, t)
    /\ thr[a][u].pc = "body"
    /\ thr[a][u].job.peer = thr[a][t].job.peer
    /\ sendMutexes_[a][SendMutex(thr[a][u].job.peer)] = u

\* Member a is in sync() past the first barrier: in waitWorkComplete() or at
\* the second barrier.
Draining(a) == main[a] \in {"drain", "barrier2"}

\* In this step agent s issues a REQUEST or RESPONSE transmission to a.
IssuesTo(s, a) ==
  /\ Len(chan'[s][a]) > Len(chan[s][a])
  /\ chan'[s][a][Len(chan'[s][a])].type \in {"REQUEST", "RESPONSE"}

\* C12: from the moment a member has passed the first barrier of sync() until
\* its sync() returns, no peer issues a REQUEST or RESPONSE transmission
\* addressed to it.
C12_NoSendsWhileDraining ==
  [][\A a \in Ranks : Draining(a) => \A s \in Ranks : ~IssuesTo(s, a)]_vars

\* The jobs of agent a that are queued or on a pool thread.
JobsOf(a) ==
  {queue[a][i] : i \in DOMAIN queue[a]}
    \cup {thr[a][t].job : t \in {u \in Pool(a) : thr[a][u].pc # "idle"}}

\* The jobs of agent a that are queued or on a pool thread and are not
\* through: a SendWork whose handles have all resolved and a RecvWork past its
\* lookup in the table are left out.
OpenJobsOf(a) ==
  {queue[a][i] : i \in DOMAIN queue[a]}
    \cup {thr[a][t].job : t \in {u \in Pool(a) :
            \/ thr[a][u].pc \in {"lock", "body", "recv"}
            \/ thr[a][u].pc = "wait" /\ SendPending(a, u)}}

AllJobs == [a \in Ranks |-> JobsOf(a)]

OpenJobs == [a \in Ranks |-> OpenJobsOf(a)]

\* The ids of the RESPONSEs on their way to agent a: in a SendWork of a peer
\* (one of jobs[s]), in a body in flight, or in a RecvWork of a before its
\* lookup.
ResponsesTo(a, jobs) ==
  {j.msg.id : j \in {k \in UNION {jobs[s] : s \in Ranks \ {a}} :
       k.kind = "send" /\ k.peer = a /\ k.msg.type = "RESPONSE"}}
    \cup UNION {{deserialize("RESPONSE", chan[s][a][i].bytes).id :
                   i \in {k \in DOMAIN chan[s][a] :
                            chan[s][a][k].k = "body"
                            /\ chan[s][a][k].type = "RESPONSE"}} : s \in Ranks}
    \cup {deserialize("RESPONSE", j.bytes).id :
            j \in {k \in OpenJobsOf(a) :
                     k.kind = "recv" /\ k.msg.type = "RESPONSE"}}

\* The ids of the REQUESTs in the SendWork jobs of agent a among jobs[a].
RequestsOf(a, jobs) ==
  {j.msg.id : j \in {k \in jobs[a] : k.kind = "send" /\ k.msg.type = "REQUEST"}}

\* send() changes the table only under its lock, and the SendWork of a
\* REQUEST is enqueued with an id that is in the table.
RegisteredBeforeEnqueued ==
  \A a \in Ranks :
    /\ futures_'[a] # futures_[a] => futureMutex_'[a] # Free
    /\ ( /\ Len(queue'[a]) > Len(queue[a])
         /\ queue'[a][Len(queue'[a])].kind = "send"
         /\ queue'[a][Len(queue'[a])].msg.type = "REQUEST" )
       => /\ futureMutex_[a] = User
          /\ queue'[a][Len(queue'[a])].msg.id \in DOMAIN futures_[a]

\* C13 as stated: the table of the requester has an entry for r whenever a
\* SendWork for request r is queued or running, or a RESPONSE with id r is in
\* flight to or being processed by the requester.
C13_RegisteredWhileInFlight ==
  /\ [][RegisteredBeforeEnqueued]_vars
  /\ [](\A a \in Ranks :
          RequestsOf(a, AllJobs) \cup ResponsesTo(a, OpenJobs)
            \subseteq DOMAIN futures_[a])

\* C13, amended: the same, where a SendWork counts as running until the
\* handles of its transmissions have resolved.
C13_RegisteredUntilResolved ==
  /\ [][RegisteredBeforeEnqueued]_vars
  /\ [](\A a \in Ranks :
          RequestsOf(a, OpenJobs) \cup ResponsesTo(a, OpenJobs)
            \subseteq DOMAIN futures_[a])

\* Witness of C13: the RESPONSE to one request of an agent is in flight to it
\* while the SendWork of another of its requests is still queued.
C13_Witness ==
  \E a \in Ranks : \E s \in Ranks : \E i \in DOMAIN chan[s][a] :
    /\ chan[s][a][i].k = "body"
    /\ chan[s][a][i].type = "RESPONSE"
    /\ \E r \in RequestsOf(a, OpenJobs) :
         r # deserialize("RESPONSE", chan[s][a][i].bytes).id

\* Pool thread t of agent a is about to process a RESPONSE whose id has no
\* entry in the table.
UnknownResponse(a, t) ==
  /\ thr[a][t].pc = "recv"
  /\ thr[a][t].job.msg.type = "RESPONSE"
  /\ DeserializeOk(thr[a][t].job.bytes)
  /\ deserialize("RESPONSE", thr[a][t].job.bytes).id \notin DOMAIN futures_[a]

\* C14: the RecvWork job of a RESPONSE whose id is not in the table ends in a
\* fatal error, completes no future and adds no entry to the table.
C14_UnknownResponseFatal ==
  [][\A a \in Ranks : \A t \in Pool(a) :
       (UnknownResponse(a, t)
          /\ call'[a] = call[a]
          /\ (thr'[a][t] # thr[a][t] \/ fatal'[a] # fatal[a])) =>
         /\ fatal'[a] # "none"
         /\ fut'[a] = fut[a]
         /\ futures_'[a] = futures_[a]]_vars

\* The body tx is the one announced by the preamble fields (size, type).
BodyMatches(tx, size, type) ==
  tx.k = "body" /\ length(tx.bytes) = size /\ tx.type = type

\* Thread t of s has issued the preamble (size, type) to a and not yet the
\* body.
BodyToCome(s, t, a, size, type) ==
  /\ thr[s][t].pc = "body"
  /\ thr[s][t].job.peer = a
  /\ thr[s][t].job.msg.type = type
  /\ length(serialize(thr[s][t].job.msg)) = size

\* On the way from s to a every preamble of a message with a body is
\* followed at once by the body the same job issued, or that job is about to
\* issue it; a body is preceded by its preamble, or the listener has taken
\* that preamble and is waiting for this body.
FramesPaired(s, a) ==
  LET c == chan[s][a] IN
  \A i \in DOMAIN c :
    /\ (c[i].k = "pre" /\ c[i].type # "SHUTDOWN") =>
         IF i < Len(c)
         THEN BodyMatches(c[i + 1], c[i].len, c[i].type) /\ c[i + 1].by = c[i].by
         ELSE BodyToCome(s, c[i].by, a, c[i].len, c[i].type)
    /\ c[i].k = "body" =>
         IF i > 1
         THEN /\ c[i - 1].k = "pre" /\ c[i - 1].by = c[i].by
              /\ BodyMatches(c[i], c[i - 1].len, c[i - 1].type)
         ELSE /\ lis[a].pc = "body" /\ lis[a].src = s
              /\ BodyMatches(c[i], lis[a].size, lis[a].type)

\* A listener that has taken a preamble of s finds the body of that message
\* next on the way from s, or the job has yet to issue it.
ListenerAwaitsBody(a) ==
  lis[a].pc = "body" =>
    LET s == lis[a].src IN
    IF chan[s][a] # << >>
    THEN BodyMatches(Head(chan[s][a]), lis[a].size, lis[a].type)
    ELSE \E t \in Pool(s) : BodyToCome(s, t, a, lis[a].size, lis[a].type)

\* The next step of a listener that has taken a preamble of s receives the
\* body from s, hands it to a RecvWork and leaves the other sources alone.
ListenerTakesBodyNext ==
  \A a \in Ranks :
    (lis[a].pc = "body" /\ lis'[a] # lis[a]) =>
      LET s == lis[a].src IN
      /\ lis'[a].pc = "any"
      /\ chan[s][a] # << >>
      /\ chan'[s][a] = Tail(chan[s][a])
      /\ \A o \in Ranks \ {s} : chan'[o][a] = chan[o][a]
      /\ queue'[a] =
           Append(queue[a], RecvWork(s, lis[a].type, Head(chan[s][a]).bytes))

\* C15: the body the listener receives after a preamble of source s is the
\* body s transmitted with that preamble, whatever the other jobs of s and the
\* other sources do, and the listener takes no other preamble before it.
C15_BodyFollowsPreamble ==
  /\ [](\A a \in Ranks :
          /\ lis[a].pc # "garbled"
          /\ ListenerAwaitsBody(a)
          /\ \A s \in Ranks : FramesPaired(s, a))
  /\ [][ListenerTakesBodyNext]_vars

\* Witness of C15: a listener has taken a preamble of one source, whose body
\* is not yet issued, while a transmission of another source is waiting for
\* it.
C15_Witness ==
  \E a \in Ranks : \E o \in Ranks :
    /\ lis[a].pc = "body"
    /\ chan[lis[a].src][a] = << >>
    /\ o # lis[a].src
    /\ chan[o][a] # << >>

\* The REQUESTs <<sender, id>> addressed to a by a send() call.
ReqSentTo(a) ==
  {sr \in Ranks \X ReqIds :
     sr[2] \in DOMAIN reqLog[sr[1]] /\ reqLog[sr[1]][sr[2]].to = a}

IsReqSendWork(j, a, r) ==
  j.kind = "send" /\ j.peer = a /\ j.msg.type = "REQUEST" /\ j.msg.id = r

\* Those whose body the listener of a has not received yet: still in send(),
\* in a SendWork that has not issued the body, or in flight.
ReqBeforeListener(a) ==
  {sr \in Ranks \X ReqIds :
     LET s == sr[1]
         r == sr[2]
     IN  \/ main[s] = "sendReg" /\ IsReqSendWork(mainReq[s], a, r)
         \/ \E i \in DOMAIN queue[s] : IsReqSendWork(queue[s][i], a, r)
         \/ \E t \in Pool(s) :
              thr[s][t].pc \in {"lock", "body"} /\ IsReqSendWork(thr[s][t].job, a, r)
         \/ \E i \in DOMAIN chan[s][a] :
              /\ chan[s][a][i].k = "body"
              /\ chan[s][a][i].type = "REQUEST"
              /\ deserialize("REQUEST", chan[s][a][i].bytes).id = r}

IsReqRecvWork(j, s, r) ==
  /\ j.kind = "recv" /\ j.peer = s /\ j.msg.type = "REQUEST"
  /\ deserialize("REQUEST", j.bytes).id = r

\* Those in a RecvWork of a that has not run yet.
ReqAtPool(a) ==
  {sr \in Ranks \X ReqIds :
     \/ \E i \in DOMAIN queue[a] : IsReqRecvWork(queue[a][i], sr[1], sr[2])
     \/ \E t \in Pool(a) :
          thr[a][t].pc = "recv" /\ IsReqRecvWork(thr[a][t].job, sr[1], sr[2])}

\* Those cb_ was invoked on.
ReqCalled(a) ==
  {<< cbLog[a][i].from, cbLog[a][i].id >> : i \in DOMAIN cbLog[a]}

\* Every REQUEST body received is in one RecvWork that has not run or has had
\* cb_ invoked on it, once; every invocation has made one RESPONSE send().
CallbackAccounts ==
  \A a \in Ranks :
    /\ ReqSentTo(a) \ ReqBeforeListener(a) = ReqAtPool(a) \cup ReqCalled(a)
    /\ ReqAtPool(a) \cap ReqCalled(a) = {}
    /\ Cardinality(ReqCalled(a)) = Len(cbLog[a])
    /\ Cardinality({r \in DOMAIN fut[a] : fut[a][r].type = "RESPONSE"})
         = Len(cbLog[a])

\* cb_ is invoked only in the step of a pool thread running the RecvWork of a
\* REQUEST, on that request, and the step enqueues one SendWork, of the
\* message cb_ returned, for the sender named in the RecvWork; the listener
\* does not move in that step.
CallbackInRecvWork ==
  \A a \in Ranks :
    cbLog'[a] # cbLog[a] =>
      \E t \in Pool(a) :
        LET work == thr[a][t].job
            message == deserialize("REQUEST", work.bytes)
        IN  /\ thr[a][t].pc = "recv"
            /\ work.kind = "recv" /\ work.msg.type = "REQUEST"
            /\ thr'[a][t] = IdleThread
            /\ lis' = lis
            /\ cbLog'[a] = Append(cbLog[a],
                 [from |-> work.peer, id |-> message.id,
                  payload |-> message.payload])
            /\ queue'[a] = Append(queue[a], SendWork(work.peer, cb(message)))

\* The RecvWork the listener enqueues names the senderRank of the preamble.
RecvWorkNamesSender ==
  \A a \in Ranks :
    (lis[a].pc = "body" /\ lis'[a].pc = "any") =>
      /\ cbLog' = cbLog
      /\ queue'[a][Len(queue'[a])].kind = "recv"
      /\ queue'[a][Len(queue'[a])].peer = lis[a].src

\* C16: for each REQUEST body the listener receives, cb_ is invoked once, by
\* a pool thread in the RecvWork job and never by the listener, and one
\* RESPONSE, the message cb_ returned, is sent to the senderRank of the
\* request's preamble.
C16_CallbackOncePerRequest ==
  /\ [](CallbackAccounts)
  /\ [][CallbackInRecvWork /\ RecvWorkNamesSender]_vars

\* Witness of C16: cb_ has been invoked on one request received by an agent
\* while the RecvWork of another request is waiting in its pool.
C16_Witness ==
  \E a \in Ranks : ReqCalled(a) # {} /\ ReqAtPool(a) # {}

\* In this step a send() call of agent a makes the future of a message of one
\* of the given types.
MakesFuture(a, types) ==
  \E r \in DOMAIN fut'[a] \ DOMAIN fut[a] : fut'[a][r].type \in types

\* C17 as stated: the counter of an agent advances only in a send() of a
\* REQUEST, and the ids of its successive REQUESTs increase strictly.
C17_IdOnlyForRequests ==
  [][\A a \in Ranks :
       /\ nextId_'[a] # nextId_[a] => MakesFuture(a, {"REQUEST"})
       /\ MakesFuture(a, {"REQUEST"}) =>
            \A q \in DOMAIN reqLog[a] : q < nextId_[a]]_vars

\* Every future of an agent was made under an id drawn from its counter.
IdsDrawn == \A a \in Ranks : DOMAIN fut[a] = 0 .. (nextId_[a] - 1)

\* The counter advances by one in every send() that passes the destination
\* checks, whatever the type of the message, and in no other step; a REQUEST
\* is registered and sent under the id drawn, which is larger than the id of
\* every earlier REQUEST of the agent.
IdsAdvance ==
  \A a \in Ranks :
    /\ nextId_'[a] \in {nextId_[a], nextId_[a] + 1}
    /\ nextId_'[a] # nextId_[a] <=>
         MakesFuture(a, {"REQUEST", "RESPONSE", "SHUTDOWN"})
    /\ nextId_'[a] # nextId_[a] =>
         DOMAIN fut'[a] = DOMAIN fut[a] \cup {nextId_[a]}
    /\ MakesFuture(a, {"REQUEST"}) =>
         /\ mainReq'[a].msg.id = nextId_[a]
         /\ DOMAIN futures_'[a] = DOMAIN futures_[a] \cup {nextId_[a]}
         /\ DOMAIN reqLog'[a] = DOMAIN reqLog[a] \cup {nextId_[a]}
         /\ \A q \in DOMAIN reqLog[a] : q < nextId_[a]

\* C17, amended: send() advances the counter for a message of any type; the
\* ids given to successive REQUESTs are pairwise distinct and strictly
\* increasing.
C17_IdForEverySend == [](IdsDrawn) /\ [][IdsAdvance]_vars

\* Witness of C17: an agent whose first id went to a RESPONSE or a SHUTDOWN
\* and a later one to a REQUEST.
C17_Witness ==
  \E a \in Ranks : \E r, q \in DOMAIN fut[a] :
    /\ r < q
    /\ fut[a][r].type \in {"RESPONSE", "SHUTDOWN"}
    /\ fut[a][q].type = "REQUEST"
    /\ q \in DOMAIN futures_[a]

\* The transmissions thread t of agent a has added to the way to d in this
\* step.
Issued(a, t, d) == SubSeq(chan'[a][d], Len(chan[a][d]) + 1, Len(chan'[a][d]))

\* The steps of a SendWork job: from "lock" it issues the preamble alone,
\* which ends the transmissions of a SHUTDOWN; from "body" it issues the body,
\* of the length the preamble announced; while it waits it issues nothing.
FrameSteps(a, t) ==
  LET work == thr[a][t].job
      d == work.peer
  IN  /\ (thr[a][t].pc = "lock" /\ thr'[a][t].pc # "lock") =>
           /\ Len(Issued(a, t, d)) = 1
           /\ Issued(a, t, d)[1].k = "pre"
           /\ Issued(a, t, d)[1].by = t
           /\ Issued(a, t, d)[1].src = a
           /\ Issued(a, t, d)[1].type = work.msg.type
           /\ thr'[a][t].pc = IF work.msg.type = "SHUTDOWN" THEN "wait" ELSE "body"
      /\ (thr[a][t].pc = "body" /\ thr'[a][t].pc # "body") =>
           /\ Len(Issued(a, t, d)) = 1
           /\ Issued(a, t, d)[1] = Body(a, t, work.msg)
           /\ thr'[a][t].pc = "wait"
           /\ \/ \E i \in DOMAIN chan[a][d] :
                   /\ chan[a][d][i].k = "pre" /\ chan[a][d][i].by = t
                   /\ chan[a][d][i].len = length(Issued(a, t, d)[1].bytes)
                   /\ \A j \in DOMAIN chan[a][d] : j > i => chan[a][d][j].by # t
              \/ /\ lis[d].pc = "body" /\ lis[d].src = a
                 /\ lis[d].size = length(Issued(a, t, d)[1].bytes)
      /\ thr[a][t].pc = "wait" =>
           \A i \in DOMAIN Issued(a, t, d) : Issued(a, t, d)[i].by # t

\* The preamble of a SHUTDOWN announces a body of length zero.
ShutdownLengthZero(a, t) ==
  ( /\ thr[a][t].pc = "lock" /\ thr'[a][t].pc # "lock"
    /\ thr[a][t].job.msg.type = "SHUTDOWN" ) =>
    \A i \in DOMAIN Issued(a, t, thr[a][t].job.peer) :
      Issued(a, t, thr[a][t].job.peer)[i].len = 0

\* The transmissions of every SendWork job are the preamble alone for a
\* SHUTDOWN and the preamble followed by the body of the announced length
\* for the other types.
FramesPerJob == [][\A a \in Ranks : \A t \in Pool(a) : FrameSteps(a, t)]_vars

\* C18: a SendWork job of a SHUTDOWN issues one transmission, the preamble,
\* with bodyLength zero; a SendWork job of a REQUEST or RESPONSE issues two,
\* the preamble and then the body, and the preamble's bodyLength is the length
\* of that body.
C18_FramesAndLength ==
  [][\A a \in Ranks : \A t \in Pool(a) :
       FrameSteps(a, t) /\ ShutdownLengthZero(a, t)]_vars

\* The holder of the table's lock of agent a holds no send mutex and is at no
\* transport call: the user thread holds it only inside send(), between the
\* insert and the end of the locked block, a pool thread only inside the
\* locked block of a RecvWork.
TableLockAlone ==
  \A a \in Ranks :
    /\ futureMutex_[a] = User => main[a] = "sendReg"
    /\ \A d \in Ranks : sendMutexes_[a][d] # User
    /\ \A t \in Pool(a) :
         futureMutex_[a] = t =>
           /\ thr[a][t].pc = "unlock"
           /\ ~HoldsSendMutex(a, t)
           /\ ~SendPending(a, t)

\* No transmission is issued, none is received and no barrier is passed by a
\* thread that holds the table's lock before or after the step.
NoTransportUnderTableLock ==
  \A a \in Ranks :
    /\ \A d \in Ranks :
         Len(chan'[a][d]) > Len(chan[a][d]) =>
           LET t == chan'[a][d][Len(chan'[a][d])].by
           IN  futureMutex_[a] # t /\ futureMutex_'[a] # t
    /\ (main[a] \in {"barrier1", "barrier2"} \/ main'[a] \in {"barrier1", "barrier2"})
         => futureMutex_[a] # User /\ futureMutex_'[a] # User
    /\ \A t \in Pool(a) :
         (thr[a][t].pc = "wait" \/ thr'[a][t].pc = "wait")
           => futureMutex_[a] # t /\ futureMutex_'[a] # t

\* C19: no thread holds the table's lock together with a send mutex, and no
\* thread holds the table's lock while it issues or waits on a transport send,
\* receive or barrier.
C19_LocksNeverNested == [](TableLockAlone) /\ [][NoTransportUnderTableLock]_vars

\* Witness of C19: the user thread of an agent holds the table's lock inside
\* send() while a pool thread holds a send mutex with its body still to issue.
C19_Witness ==
  \E a \in Ranks : \E u \in Pool(a) :
    /\ futureMutex_[a] = User
    /\ thr[a][u].pc = "body"
    /\ sendMutexes_[a][SendMutex(thr[a][u].job.peer)] = u

IsTraffic(type) == type \in {"REQUEST", "RESPONSE"}

\* A REQUEST or RESPONSE addressed to a is queued or untransmitted at a peer,
\* or in flight to a.
TrafficTowards(a) ==
  \E s \in Ranks \ {a} :
    \/ \E i \in DOMAIN queue[s] :
         /\ queue[s][i].kind = "send" /\ queue[s][i].peer = a
         /\ IsTraffic(queue[s][i].msg.type)
    \/ \E t \in Pool(s) :
         /\ thr[s][t].pc \in {"lock", "body"}
         /\ thr[s][t].job.peer = a
         /\ IsTraffic(thr[s][t].job.msg.type)
    \/ \E i \in DOMAIN chan[s][a] : IsTraffic(chan[s][a][i].type)

\* The listener of a exits in this step.
ListenerExits(a) == lis[a].pc # "exit" /\ lis'[a].pc = "exit"

\* join() has returned on a with every REQUEST future completed and the table
\* empty.
JoinedClean(a) ==
  main[a] = "done" =>
    /\ futures_[a] = << >>
    /\ \A r \in DOMAIN fut[a] : completed(fut[a][r])

\* C20: when the listener of a member exits on SHUTDOWN no REQUEST or RESPONSE
\* addressed to it is queued, untransmitted or in flight, and when join()
\* has returned on a member every future of its REQUESTs is completed and its
\* table is empty.
NothingInFlightAtExit ==
  [][\A a \in Ranks : ListenerExits(a) => ~TrafficTowards(a)]_vars

C20_NothingLostAtExit ==
  NothingInFlightAtExit /\ [](\A a \in Ranks : JoinedClean(a))

====
